---------------------------- MODULE Spec2Model ----------------------------
(***************************************************************************)
(* A model of ai_accessibility_checker.py: the file discoverer             *)
(* (find_supported_files), the issue extractor (scan_with_ai), the PDF     *)
(* renderer (export_to_pdf) and the runner (main).                         *)
(*                                                                         *)
(* Text is modelled as a sequence of one-character strings wherever the    *)
(* code inspects characters (file names, the consent answer), and as a     *)
(* sequence of lexical tokens where the code runs regular expressions and  *)
(* the JSON parser over it (the model's reply).  A path is the sequence of *)
(* its components.                                                         *)
(***************************************************************************)
EXTENDS Integers, Sequences, FiniteSets, TLC

VARIABLES
    pc,             \* position of the run
    env_ack,        \* os.getenv("AI_CHECKER_ACKNOWLEDGED")
    fs,             \* the file paths that exist below the scanned directory
    CONFIG,         \* module-level CONFIG = load_config()
    directory,      \* the directory argument
    cli_args,       \* TRUE when --level and --version were both given
    answer,         \* what the user typed at the consent prompt
    prompts,        \* log of input() prompts shown, in order
    exit_status,    \* process exit status (-1 while running)
    output_format,  \* "table", "list" or "pdf"
    files_to_scan,  \* result of find_supported_files
    opened,         \* log of open(file) calls, in order
    sent,           \* log of completion requests: [file, completion]
    all_results,    \* sequence of <<file, issues>>
    console,        \* log of per-file console output
    pdf,            \* the PDF artifact
    export_calls,   \* number of calls of export_to_pdf
    completion,     \* the completion endpoint's behaviour (extractor input)
    issues          \* [raised, value]: outcome of scan_with_ai

vars == << pc, env_ack, fs, CONFIG, directory, cli_args, answer, prompts, exit_status,
           output_format, files_to_scan, opened, sent, all_results, console,
           pdf, export_calls, completion, issues >>

---------------------------------------------------------------------------
(* Bounds *)

MaxDepth == 2       \* directories nested below the scanned directory
MaxFiles == 2       \* files in the tree given to the discoverer
MaxProse == 2       \* tokens of prose before, and after, the array of a reply
MaxItems == 2       \* elements of the array of a reply
MaxResults == 2     \* results in the sequence given to the PDF export
MaxIssues == 1      \* issues of one result given to the PDF export
MaxScanned == 2     \* supported files in the tree a whole run scans
MaxRetries == 1     \* invalid answers to the level and the version prompt

---------------------------------------------------------------------------
(* Character strings *)

Str_html      == << ".", "h", "t", "m", "l" >>
Str_twig      == << ".", "t", "w", "i", "g" >>
Str_css       == << ".", "c", "s", "s" >>
Str_scss      == << ".", "s", "c", "s", "s" >>
Str_pcss      == << ".", "p", "c", "s", "s" >>
Str_jsx       == << ".", "j", "s", "x" >>
Str_tsx       == << ".", "t", "s", "x" >>
Str_stories   == << ".", "s", "t", "o", "r", "i", "e", "s" >>
Str_node_modules == << "n", "o", "d", "e", "_", "m", "o", "d", "u", "l", "e", "s" >>
Str_storybook == << "s", "t", "o", "r", "y", "b", "o", "o", "k" >>
Str_git       == << ".", "g", "i", "t" >>
Str_pycache   == << "_", "_", "p", "y", "c", "a", "c", "h", "e", "_", "_" >>
Str_dist      == << "d", "i", "s", "t" >>
Str_build     == << "b", "u", "i", "l", "d" >>
Str_src       == << "s", "r", "c" >>

\* str.startswith
StartsWith(s, prefix) ==
    /\ Len(prefix) <= Len(s)
    /\ SubSeq(s, 1, Len(prefix)) = prefix

\* str.endswith
EndsWith(s, suffix) ==
    /\ Len(suffix) <= Len(s)
    /\ SubSeq(s, Len(s) - Len(suffix) + 1, Len(s)) = suffix

\* the substring test  pat in s
Contains(s, pat) ==
    \E i \in 1..(Len(s) - Len(pat) + 1) : SubSeq(s, i, i + Len(pat) - 1) = pat

---------------------------------------------------------------------------
(* Configuration: load_config *)

DefaultConfig ==
    [ SUPPORTED_EXTENSIONS |->
          << Str_html, Str_twig, Str_css, Str_scss, Str_pcss, Str_jsx, Str_tsx >>,
      EXCLUDED_DIRS |->
          << Str_node_modules, Str_storybook, Str_git, Str_pycache, Str_dist, Str_build >>,
      EXCLUDED_PATTERNS |->
          << Str_stories \o Str_jsx, Str_stories \o Str_tsx >> ]

\* a checker.config.json whose extensions overlap (".css" and "ss" both match
\* "b.css") and whose exclusions differ from the defaults
FileConfig ==
    [ SUPPORTED_EXTENSIONS |-> << Str_css, << "s", "s" >>, << ".", "m", "d" >> >>,
      EXCLUDED_DIRS |-> << Str_src >>,
      EXCLUDED_PATTERNS |-> << << "r", "." >> >> ]

load_config == { DefaultConfig, FileConfig }

---------------------------------------------------------------------------
(* The directory tree *)

Roots == { << << "w" >> >>, << Str_git >> }

\* directory names and file names, in the order the directory listing
\* returns them
DirNames  == << Str_src, Str_node_modules, Str_git >>
FileNames == << << "a" >> \o Str_html,
                << "a" >> \o Str_stories \o Str_jsx,
                << "b" >> \o Str_css,
                << "r", ".", "m", "d" >> >>

Range(seq) == { seq[i] : i \in 1..Len(seq) }

\* the directory names of the trees given to the discoverer: src is an
\* ordinary name by default and excluded by FileConfig, .git is hidden
TreeDirNames == { Str_src, Str_git }

RECURSIVE DirChains(_)
DirChains(depth) ==
    IF depth = 0 THEN { << >> }
    ELSE LET shorter == DirChains(depth - 1)
         IN  shorter \cup { Append(c, d) : c \in shorter, d \in TreeDirNames }

PathsBelow(root) ==
    { root \o c \o << f >> : c \in DirChains(MaxDepth), f \in Range(FileNames) }

RECURSIVE SubsetsUpTo(_, _)
SubsetsUpTo(S, k) ==
    IF k = 0 THEN { {} }
    ELSE LET smaller == SubsetsUpTo(S, k - 1)
         IN  smaller \cup { T \cup { p } : T \in smaller, p \in S }

Trees(root) == SubsetsUpTo(PathsBelow(root), MaxFiles)

IsPrefix(a, b) == Len(a) <= Len(b) /\ SubSeq(b, 1, Len(a)) = a

\* the files and the sub-directories os.walk lists for the directory root
ListFiles(root) ==
    SelectSeq(FileNames, LAMBDA f : (root \o << f >>) \in fs)

ListDirs(root) ==
    SelectSeq(DirNames,
              LAMBDA d : \E p \in fs : /\ Len(p) > Len(root) + 1
                                       /\ IsPrefix(root \o << d >>, p))

---------------------------------------------------------------------------
(* File finder: find_supported_files *)

\* d in seq
IsIn(d, seq) == \E i \in 1..Len(seq) : seq[i] = d

KeepDirIgnoringHidden(d) ==
    ~ IsIn(d, CONFIG.EXCLUDED_DIRS)

\* not d.startswith('.') and d not in CONFIG["EXCLUDED_DIRS"]
KeepDir(d) ==
    /\ ~ StartsWith(d, << "." >>)
    /\ ~ IsIn(d, CONFIG.EXCLUDED_DIRS)

\* the condition of the if statement on a file name
FileMatches(file) ==
    /\ \E i \in 1..Len(CONFIG.SUPPORTED_EXTENSIONS) :
           EndsWith(file, CONFIG.SUPPORTED_EXTENSIONS[i])
    /\ ~ \E i \in 1..Len(CONFIG.EXCLUDED_PATTERNS) :
             Contains(file, CONFIG.EXCLUDED_PATTERNS[i])

RECURSIVE JoinAll(_, _)
JoinAll(root, files) ==
    IF files = << >> THEN << >>
    ELSE << root \o << Head(files) >> >> \o JoinAll(root, Tail(files))

\* one pass of the loop over os.walk for the directory root, followed by the
\* passes for the sub-directories that were kept in dirs[:]
RECURSIVE WalkFrom(_)
RECURSIVE WalkEach(_, _)
WalkFrom(root) ==
    LET dirs == SelectSeq(ListDirs(root), KeepDir)
        here == JoinAll(root, SelectSeq(ListFiles(root), FileMatches))
    IN  here \o WalkEach(root, dirs)

WalkEach(root, dirs) ==
    IF dirs = << >> THEN << >>
    ELSE WalkFrom(root \o << Head(dirs) >>) \o WalkEach(root, Tail(dirs))

find_supported_files(dir) == WalkFrom(dir)

---------------------------------------------------------------------------
(* The model's reply, as text *)

\* Tokens of a reply: the brackets and the comma of JSON, a line break, a
\* code-fence marker (three backquotes), the word json, a word of prose, and
\* atoms that each stand for one bracket-free JSON value.
LB    == "["
RB    == "]"
COMMA == ","
NL    == "nl"
FENCE == "fence"
JSON  == "json"
WORD  == "w"

\* atoms: issue objects whose "severity" is High, Medium, Low, Critical or
\* absent, and the number 7
Atoms == { "hi", "md", "lo", "cr", "ns", "n7" }

AtomKind(tok) == IF tok = "n7" THEN "num" ELSE "obj"

JAtom(tok)   == [ kind |-> AtomKind(tok), tok |-> tok, items |-> << >> ]
JArray(elts) == [ kind |-> "arr", tok |-> "", items |-> elts ]

\* the text of a JSON value
RECURSIVE json_dumps(_)
RECURSIVE dumps_items(_)
json_dumps(v) ==
    IF v.kind = "arr" THEN << LB >> \o dumps_items(v.items) \o << RB >>
    ELSE << v.tok >>

dumps_items(elts) ==
    IF elts = << >> THEN << >>
    ELSE IF Len(elts) = 1 THEN json_dumps(elts[1])
    ELSE json_dumps(elts[1]) \o << COMMA >> \o dumps_items(Tail(elts))

---------------------------------------------------------------------------
(* AI analysis: scan_with_ai *)

IsSpace(tok) == tok = NL

\* str.strip
RECURSIVE lstrip(_)
lstrip(text) ==
    IF text # << >> /\ IsSpace(Head(text)) THEN lstrip(Tail(text)) ELSE text

RECURSIVE rstrip(_)
rstrip(text) ==
    IF text # << >> /\ IsSpace(text[Len(text)])
    THEN rstrip(SubSeq(text, 1, Len(text) - 1))
    ELSE text

strip(text) == lstrip(rstrip(text))

\* re.sub with the pattern  ^FENCE(json)? | FENCE$  and re.MULTILINE: the
\* positions of text the substitution deletes (FENCE is three backquotes)
AtLineStart(text, i) == i = 1 \/ text[i - 1] = NL
AtLineEnd(text, i)   == i = Len(text) \/ text[i + 1] = NL

FenceDeleted(text, i) ==
    \/ /\ text[i] = FENCE
       /\ AtLineStart(text, i) \/ AtLineEnd(text, i)
    \/ /\ text[i] = JSON
       /\ i > 1
       /\ text[i - 1] = FENCE
       /\ AtLineStart(text, i - 1)

RECURSIVE KeepFrom(_, _)
KeepFrom(text, i) ==
    IF i > Len(text) THEN << >>
    ELSE IF FenceDeleted(text, i) THEN KeepFrom(text, i + 1)
    ELSE << text[i] >> \o KeepFrom(text, i + 1)

sub_fences(text) == KeepFrom(text, 1)

Positions(text, tok) == { i \in 1..Len(text) : text[i] = tok }

Min(S) == CHOOSE x \in S : \A y \in S : x <= y
Max(S) == CHOOSE x \in S : \A y \in S : y <= x

NoMatch == [ found |-> FALSE, group |-> << >> ]

search_first_close(text) ==
    LET opens == Positions(text, LB)
    IN  IF opens = {} \/ { j \in Positions(text, RB) : j > Min(opens) } = {}
        THEN NoMatch
        ELSE [ found |-> TRUE,
               group |-> SubSeq(text, Min(opens),
                                Min({ j \in Positions(text, RB) : j > Min(opens) })) ]

\* re.search(r"\[.*\]", text, re.DOTALL): from the first "[" that has a "]"
\* after it to the last "]"
search_array(text) ==
    LET opens  == Positions(text, LB)
        closes == Positions(text, RB)
    IN  IF opens = {} \/ closes = {} \/ Max(closes) < Min(opens)
        THEN NoMatch
        ELSE [ found |-> TRUE, group |-> SubSeq(text, Min(opens), Max(closes)) ]

\* json.loads: a recursive-descent parse of value := atom | "[" "]" |
\* "[" value ("," value)* "]", white space skipped, nothing left over
ParseFail == [ ok |-> FALSE, value |-> JArray(<< >>), next |-> 0 ]

RECURSIVE parse_value(_, _)
RECURSIVE parse_items(_, _, _)
parse_value(t, i) ==
    IF i > Len(t) THEN ParseFail
    ELSE IF t[i] \in Atoms THEN [ ok |-> TRUE, value |-> JAtom(t[i]), next |-> i + 1 ]
    ELSE IF t[i] = LB
         THEN IF i + 1 <= Len(t) /\ t[i + 1] = RB
              THEN [ ok |-> TRUE, value |-> JArray(<< >>), next |-> i + 2 ]
              ELSE parse_items(t, i + 1, << >>)
    ELSE ParseFail

parse_items(t, i, acc) ==
    LET r == parse_value(t, i)
    IN  IF ~ r.ok \/ r.next > Len(t) THEN ParseFail
        ELSE IF t[r.next] = COMMA THEN parse_items(t, r.next + 1, Append(acc, r.value))
        ELSE IF t[r.next] = RB
             THEN [ ok |-> TRUE, value |-> JArray(Append(acc, r.value)), next |-> r.next + 1 ]
        ELSE ParseFail

json_loads(text) ==
    LET t == SelectSeq(text, LAMBDA tok : ~ IsSpace(tok))
        r == parse_value(t, 1)
    IN  IF r.ok /\ r.next = Len(t) + 1
        THEN [ ok |-> TRUE, value |-> r.value ]
        ELSE [ ok |-> FALSE, value |-> JArray(<< >>) ]

\* what client.chat.completions.create does: it raises, or it returns a
\* message whose content is None, or one whose content is text made of
\* prose, an optional opening fence, an optional JSON array, an optional
\* closing fence and more prose
Completion(kind, pre, open, hasarr, arr, close, post) ==
    [ kind |-> kind, pre |-> pre, open |-> open, hasarr |-> hasarr,
      arr |-> arr, close |-> close, post |-> post ]

Raises      == Completion("raise", << >>, << >>, FALSE, JArray(<< >>), << >>, << >>)
NullContent == Completion("null",  << >>, << >>, FALSE, JArray(<< >>), << >>, << >>)

Content(c) ==
    c.pre \o c.open \o (IF c.hasarr THEN json_dumps(c.arr) ELSE << >>)
          \o c.close \o c.post

\* the body of the try statement: the exception it ends with, or the value
\* it returns
Returned(value) == [ exc |-> "none", value |-> value ]
Thrown(exc)     == [ exc |-> exc, value |-> << >> ]

try_body(c) ==
    IF c.kind = "raise" THEN Thrown("Exception")
    ELSE IF c.kind = "null" THEN Thrown("AttributeError")
    ELSE LET raw_output == strip(sub_fences(strip(Content(c))))
             match      == search_array(raw_output)
         IN  IF match.found
             THEN IF json_loads(match.group).ok
                  THEN Returned(json_loads(match.group).value.items)
                  ELSE Thrown("JSONDecodeError")
             ELSE Returned(<< >>)

except_reraise(exc) == [ raised |-> TRUE, value |-> << >> ]

\* except json.JSONDecodeError ... return [] ; except Exception ... return []
except_handlers(exc) == [ raised |-> FALSE, value |-> << >> ]

scan_with_ai(c) ==
    LET body == try_body(c)
    IN  IF body.exc = "none" THEN [ raised |-> FALSE, value |-> body.value ]
        ELSE except_handlers(body.exc)

---------------------------------------------------------------------------
(* PDF export: export_to_pdf *)

\* hasattr(issue, "get"): only a JSON object becomes a dict
IsDict(issue) == issue.kind = "obj"

\* issue.get('severity', 'N/A')
get_severity(issue) ==
    CASE issue.tok = "hi" -> "High"
      [] issue.tok = "md" -> "Medium"
      [] issue.tok = "lo" -> "Low"
      [] issue.tok = "cr" -> "Critical"
      [] OTHER            -> "N/A"

Cell(color, bold, label) == [ color |-> color, bold |-> bold, label |-> label ]

severity_color_raw(severity) ==
    IF severity = "High" THEN Cell("red", TRUE, "High")
    ELSE IF severity = "Medium" THEN Cell("orange", TRUE, "Medium")
    ELSE Cell("green", FALSE, severity)

\* the if / elif / else that colour-codes the severity
severity_color(severity) ==
    IF severity = "High" THEN Cell("red", TRUE, "High")
    ELSE IF severity = "Medium" THEN Cell("orange", TRUE, "Medium")
    ELSE Cell("green", FALSE, "Low")

\* the rows table_data gets for the issues of one file, numbered from 1
RECURSIVE table_rows(_, _)
table_rows(file_issues, idx) ==
    IF idx > Len(file_issues) THEN << >>
    ELSE << [ idx |-> idx,
              title |-> file_issues[idx].tok,
              severity |-> severity_color(get_severity(file_issues[idx])) ] >>
         \o table_rows(file_issues, idx + 1)

\* the part of the story one (file_path, issues) pair adds
Section(result) ==
    [ file_path |-> result[1],
      no_issues |-> result[2] = << >>,
      rows      |-> table_rows(result[2], 1) ]

RECURSIVE Sections(_)
Sections(results) ==
    IF results = << >> THEN << >>
    ELSE << Section(Head(results)) >> \o Sections(Tail(results))

\* sum(len(issues) for _, issues in all_results)
RECURSIVE total_issues(_)
total_issues(results) ==
    IF results = << >> THEN 0
    ELSE Len(Head(results)[2]) + total_issues(Tail(results))

files_with_issues_unfiltered(results) == Len(results)

\* sum(1 for _, issues in all_results if issues)
RECURSIVE files_with_issues(_)
files_with_issues(results) ==
    IF results = << >> THEN 0
    ELSE (IF Head(results)[2] # << >> THEN 1 ELSE 0) + files_with_issues(Tail(results))

\* the numbers the f-string of the summary line shows, in its three slots:
\* "{issues} issue(s) found across {with_issues} of {files} file(s)"
Summary(results) ==
    [ issues      |-> total_issues(results),
      with_issues |-> files_with_issues(results),
      files       |-> Len(results) ]

NoPdf == [ written |-> FALSE,
           summary |-> [ issues |-> 0, with_issues |-> 0, files |-> 0 ],
           sections |-> << >> ]

\* issue.get raises AttributeError on an issue that is not a dict
AllDicts(results) ==
    \A k \in 1..Len(results) : \A j \in 1..Len(results[k][2]) : IsDict(results[k][2][j])

\* export_to_pdf: the document it writes, unless building the rows or
\* doc.build raises
export_to_pdf(results, build_ok) ==
    IF AllDicts(results) /\ build_ok
    THEN [ raised |-> FALSE,
           doc |-> [ written  |-> TRUE,
                     summary  |-> Summary(results),
                     sections |-> Sections(results) ] ]
    ELSE [ raised |-> TRUE, doc |-> NoPdf ]

---------------------------------------------------------------------------
(* Main runner: main *)

Str_true == << "t", "r", "u", "e" >>
Str_yes  == << "y", "e", "s" >>

\* str.lower on the characters the answers use
LowerChar(ch) ==
    CASE ch = "Y" -> "y"
      [] ch = "E" -> "e"
      [] ch = "S" -> "s"
      [] ch = "N" -> "n"
      [] ch = "O" -> "o"
      [] OTHER    -> ch

lower(str) == [ i \in 1..Len(str) |-> LowerChar(str[i]) ]

RECURSIVE lstrip_chars(_)
lstrip_chars(str) ==
    IF str # << >> /\ Head(str) = " " THEN lstrip_chars(Tail(str)) ELSE str

RECURSIVE rstrip_chars(_)
rstrip_chars(str) ==
    IF str # << >> /\ str[Len(str)] = " "
    THEN rstrip_chars(SubSeq(str, 1, Len(str) - 1))
    ELSE str

\* input(...).strip().lower()
strip_lower(str) == lower(lstrip_chars(rstrip_chars(str)))

\* what input() gives at the consent prompt: a line, or EOFError
NoAnswer  == [ given |-> FALSE, eof |-> FALSE, text |-> << >> ]
Typed(t)  == [ given |-> TRUE, eof |-> FALSE, text |-> t ]
EndOfFile == [ given |-> TRUE, eof |-> TRUE, text |-> << >> ]

acknowledged_if_set(ack) == ack # << >>

\* os.getenv("AI_CHECKER_ACKNOWLEDGED") != "true", negated
acknowledged(ack) == ack = Str_true

\* resp != "yes"
declines(resp) == resp # Str_yes

\* the prompts get_user_inputs shows: none with --level and --version, else
\* level and version (each again after every invalid answer), format, path
RECURSIVE Repeat(_, _)
Repeat(x, n) == IF n = 0 THEN << >> ELSE << x >> \o Repeat(x, n - 1)

input_prompts(cli, bad_levels, bad_versions) ==
    IF cli THEN << >>
    ELSE Repeat("level", bad_levels + 1) \o Repeat("version", bad_versions + 1)
         \o << "format", "path" >>

\* the output format get_user_inputs returns
chosen_format(cli, typed) ==
    IF cli THEN typed
    ELSE IF typed \notin { "table", "list", "pdf" } THEN "table" ELSE typed

store_result_first(results, file, file_issues) ==
    << << file, file_issues >> >> \o results

\* all_results.append((file, issues))
store_result(results, file, file_issues) ==
    Append(results, << file, file_issues >>)

Line(file, kind, rows) == [ file |-> file, kind |-> kind, rows |-> rows ]

\* the dict prefix of the issues: issue.get raises on the first other value
RECURSIVE DictPrefix(_)
DictPrefix(file_issues) ==
    IF file_issues = << >> \/ ~ IsDict(Head(file_issues)) THEN << >>
    ELSE << Head(file_issues) >> \o DictPrefix(Tail(file_issues))

RECURSIVE ItemLines(_, _)
ItemLines(file, file_issues) ==
    IF file_issues = << >> THEN << >>
    ELSE << Line(file, "item", << Head(file_issues) >>) >>
         \o ItemLines(file, Tail(file_issues))

\* what the loop body prints after all_results.append, and whether it ends
\* in the except clause
print_issues(file, file_issues, format) ==
    IF file_issues = << >>
    THEN [ lines |-> << Line(file, "no_issues", << >>) >>, raised |-> FALSE ]
    ELSE IF format = "table"
    THEN IF DictPrefix(file_issues) = file_issues
         THEN [ lines |-> << Line(file, "table", file_issues) >>, raised |-> FALSE ]
         ELSE [ lines |-> << >>, raised |-> TRUE ]
    ELSE IF format = "list"
    THEN [ lines  |-> ItemLines(file, DictPrefix(file_issues)),
           raised |-> DictPrefix(file_issues) # file_issues ]
    ELSE [ lines |-> << >>, raised |-> FALSE ]

except_aborts(next_pc) == "crashed"

\* except Exception as e: print(...) -- the loop goes on with the next file
except_continues(next_pc) == next_pc

export_always(format) == TRUE

\* if output_format == "pdf"
export_requested(format) == format = "pdf"

---------------------------------------------------------------------------
(* Idle values of the variables a specification does not use *)

NoCompletion == Completion("none", << >>, << >>, FALSE, JArray(<< >>), << >>, << >>)
NoIssues == [ raised |-> FALSE, value |-> << >> ]

RunIdle ==
    /\ env_ack = << >>
    /\ cli_args = TRUE
    /\ answer = NoAnswer
    /\ prompts = << >>
    /\ exit_status = -1
    /\ output_format = "table"
    /\ opened = << >>
    /\ sent = << >>
    /\ all_results = << >>
    /\ console = << >>
    /\ pdf = NoPdf
    /\ export_calls = 0
    /\ completion = NoCompletion
    /\ issues = NoIssues

---------------------------------------------------------------------------
(* Specification of a whole run *)

Str_True == << "T", "r", "u", "e" >>

\* values of AI_CHECKER_ACKNOWLEDGED: "true", "True", and unset
AckValues == { Str_true, Str_True, << >> }

Answers == { Typed(Str_yes), Typed(<< " ", "Y", "e", "s", " " >>),
             Typed(<< "n", "o" >>), Typed(<< "y" >>), Typed(<< >>), EndOfFile }

Formats == { "table", "list", "pdf" }

RunDirectory == << << "w" >> >>

\* supported files of the scanned tree, and files the discoverer skips
SupportedFiles ==
    << RunDirectory \o << FileNames[1] >>,
       RunDirectory \o << FileNames[3] >>,
       RunDirectory \o << Str_src, FileNames[1] >>,
       RunDirectory \o << Str_src, FileNames[3] >> >>

SkippedFiles ==
    { RunDirectory \o << FileNames[2] >>,
      RunDirectory \o << FileNames[4] >>,
      RunDirectory \o << Str_node_modules, FileNames[1] >>,
      RunDirectory \o << Str_git, FileNames[3] >> }

RunTrees ==
    { SkippedFiles \cup { SupportedFiles[i] : i \in 1..n } : n \in 0..MaxScanned }

Fenced(arr) ==
    Completion("text", << >>, << FENCE, JSON, NL >>, TRUE, arr, << NL, FENCE >>, << >>)

\* what the endpoint does for one file of a run
RunCompletions ==
    { Raises,
      Fenced(JArray(<< JAtom("hi") >>)),
      Fenced(JArray(<< >>)),
      Completion("text", << WORD >>, << >>, TRUE,
                 JArray(<< JAtom("md"), JAtom("ns") >>), << >>, << >>),
      Completion("text", << WORD >>, << >>, FALSE, JArray(<< >>), << >>, << >>),
      Completion("text", << LB >>, << >>, TRUE,
                 JArray(<< JAtom("lo") >>), << >>, << >>),
      Fenced(JArray(<< JAtom("cr"), JAtom("n7") >>)) }

Init ==
    /\ pc = "start"
    /\ env_ack \in AckValues
    /\ cli_args \in BOOLEAN
    /\ CONFIG = DefaultConfig
    /\ directory = RunDirectory
    /\ fs \in RunTrees
    /\ answer = NoAnswer
    /\ prompts = << >>
    /\ exit_status = -1
    /\ output_format = ""
    /\ files_to_scan = << >>
    /\ opened = << >>
    /\ sent = << >>
    /\ all_results = << >>
    /\ console = << >>
    /\ pdf = NoPdf
    /\ export_calls = 0
    /\ completion = NoCompletion
    /\ issues = NoIssues

\* main, up to the call of get_user_inputs
Acknowledge ==
    /\ pc = "start"
    /\ IF acknowledged(env_ack)
       THEN /\ pc' = "inputs"
            /\ UNCHANGED << answer, prompts, exit_status >>
       ELSE \E a \in Answers :
                /\ answer' = a
                /\ prompts' = Append(prompts, "consent")
                /\ IF a.eof
                   THEN pc' = "crashed" /\ exit_status' = 1
                   ELSE IF declines(strip_lower(a.text))
                   THEN pc' = "exited" /\ exit_status' = 0
                   ELSE pc' = "inputs" /\ UNCHANGED exit_status
    /\ UNCHANGED << env_ack, fs, CONFIG, directory, cli_args, output_format,
                    files_to_scan, opened, sent, all_results, console, pdf,
                    export_calls, completion, issues >>

\* get_user_inputs: the prompts it shows and the format it returns, or the
\* EOFError of input().  The level and the version it returns only pass
\* through to the request text and the PDF metadata and are left out.
GetUserInputs ==
    /\ pc = "inputs"
    /\ \/ \E typed \in (IF cli_args THEN Formats ELSE Formats \cup { "xml" }) :
            \E bad_levels, bad_versions \in 0..MaxRetries :
               /\ prompts' = prompts \o input_prompts(cli_args, bad_levels, bad_versions)
               /\ output_format' = chosen_format(cli_args, typed)
               /\ pc' = "discover"
               /\ UNCHANGED exit_status
       \/ /\ ~ cli_args
          /\ prompts' = Append(prompts, "level")
          /\ pc' = "crashed"
          /\ exit_status' = 1
          /\ UNCHANGED output_format
    /\ UNCHANGED << env_ack, fs, CONFIG, directory, cli_args, answer,
                    files_to_scan, opened, sent, all_results, console, pdf,
                    export_calls, completion, issues >>

\* files_to_scan = find_supported_files(directory), and the return when it
\* is empty
Discover ==
    /\ pc = "discover"
    /\ files_to_scan' = find_supported_files(directory)
    /\ IF find_supported_files(directory) = << >>
       THEN pc' = "done" /\ exit_status' = 0
       ELSE pc' = "loop" /\ UNCHANGED exit_status
    /\ UNCHANGED << env_ack, fs, CONFIG, directory, cli_args, answer, prompts,
                    output_format, opened, sent, all_results, console, pdf,
                    export_calls, completion, issues >>

\* one pass of the loop over files_to_scan
ScanFile ==
    /\ pc = "loop"
    /\ Len(opened) < Len(files_to_scan)
    /\ LET file    == files_to_scan[Len(opened) + 1]
           next_pc == IF Len(opened) + 1 = Len(files_to_scan)
                      THEN "after_loop" ELSE "loop"
           error   == Line(file, "error", << >>)
       IN  /\ opened' = Append(opened, file)
           /\ \/ /\ console' = Append(console, error)
                 /\ pc' = except_continues(next_pc)
                 /\ UNCHANGED << sent, all_results, completion, issues >>
              \/ \E c \in RunCompletions :
                    LET r   == scan_with_ai(c)
                        out == print_issues(file, r.value, output_format)
                    IN  /\ completion' = c
                        /\ issues' = r
                        /\ sent' = Append(sent, [ file |-> file, returned |-> r.value ])
                        /\ IF r.raised
                           THEN /\ console' = console
                                       \o << Line(file, "scanning", << >>), error >>
                                /\ pc' = except_continues(next_pc)
                                /\ UNCHANGED all_results
                           ELSE /\ all_results' = store_result(all_results, file, r.value)
                                /\ console' = console
                                       \o << Line(file, "scanning", << >>) >>
                                       \o out.lines
                                       \o (IF out.raised THEN << error >> ELSE << >>)
                                /\ pc' = IF out.raised THEN except_continues(next_pc)
                                         ELSE next_pc
    /\ UNCHANGED << env_ack, fs, CONFIG, directory, cli_args, answer, prompts,
                    exit_status, output_format, files_to_scan, pdf, export_calls >>

\* the statements after the loop
AfterLoop ==
    /\ pc = "after_loop"
    /\ IF export_requested(output_format)
       THEN /\ export_calls' = export_calls + 1
            /\ \E build_ok \in BOOLEAN :
                   LET r == export_to_pdf(all_results, build_ok)
                   IN  IF r.raised
                       THEN pc' = "crashed" /\ exit_status' = 1 /\ UNCHANGED pdf
                       ELSE pc' = "done" /\ exit_status' = 0 /\ pdf' = r.doc
       ELSE /\ pc' = "done"
            /\ exit_status' = 0
            /\ UNCHANGED << pdf, export_calls >>
    /\ UNCHANGED << env_ack, fs, CONFIG, directory, cli_args, answer, prompts,
                    output_format, files_to_scan, opened, sent, all_results,
                    console, completion, issues >>

\* the process is terminated from outside
Kill ==
    /\ pc \in { "start", "inputs", "discover", "loop", "after_loop" }
    /\ pc' = "killed"
    /\ exit_status' = 137
    /\ UNCHANGED << env_ack, fs, CONFIG, directory, cli_args, answer, prompts,
                    output_format, files_to_scan, opened, sent, all_results,
                    console, pdf, export_calls, completion, issues >>

Next ==
    \/ Acknowledge
    \/ GetUserInputs
    \/ Discover
    \/ ScanFile
    \/ AfterLoop
    \/ Kill

Spec == Init /\ [][Next]_vars

\* every step taken in the loop attempts the next discovered file and leads
\* back to the loop or to the statements after it, unless the process is
\* terminated from outside
C4_LoopStep ==
    pc = "loop" =>
        /\ pc' \in { "loop", "after_loop", "killed" }
        /\ pc' # "killed" => opened' = Append(opened, files_to_scan[Len(opened) + 1])
        /\ pc' = "after_loop" => opened' = files_to_scan

\* in the loop the next pass is possible; after the loop every file has
\* been attempted and the statements after the loop can run
C4_LoopState ==
    /\ pc = "loop" => /\ Len(opened) < Len(files_to_scan)
                      /\ opened = SubSeq(files_to_scan, 1, Len(opened))
                      /\ ENABLED ScanFile
    /\ pc = "after_loop" => /\ opened = files_to_scan
                            /\ ENABLED AfterLoop

\* C4: a failure on one file (unreadable file, endpoint exception,
\* unparseable reply) never aborts the run: every discovered file is
\* attempted, one at a time in discovery order, and the run then reaches
\* the statements after the loop.
C4_FailureNeverAborts == [] C4_LoopState /\ [][C4_LoopStep]_vars

\* the first file could not be read, the next made the endpoint raise, and
\* the run stands after the loop with the PDF requested
C4_Witness ==
    /\ pc = "after_loop"
    /\ output_format = "pdf"
    /\ Len(files_to_scan) >= 2
    /\ opened = files_to_scan
    /\ console[1] = Line(files_to_scan[1], "error", << >>)
    /\ completion = Raises

\* the answer is the word yes, in any letter case, between any blanks
IsYes(text) ==
    \E i \in 1..Len(text) :
        /\ i + 2 <= Len(text)
        /\ text[i] \in { "y", "Y" }
        /\ text[i + 1] \in { "e", "E" }
        /\ text[i + 2] \in { "s", "S" }
        /\ \A k \in 1..Len(text) : (k < i \/ k > i + 2) => text[k] = " "

Consented ==
    \/ env_ack = << "t", "r", "u", "e" >>
    \/ answer.given /\ ~ answer.eof /\ IsYes(answer.text)

\* C5: nothing is discovered, read or sent unless AI_CHECKER_ACKNOWLEDGED is
\* exactly "true" or the user answered yes at the consent prompt; when the
\* flag is not "true" the consent prompt is the first prompt and precedes
\* any scan; any other answer ends the process with exit status 0.
C5_ConsentBeforeScan ==
    /\ ( \/ pc \in { "inputs", "discover", "loop", "after_loop", "done" }
         \/ files_to_scan # << >>
         \/ opened # << >>
         \/ sent # << >>
         \/ Len(prompts) > 1 ) => Consented
    /\ ( /\ env_ack # << "t", "r", "u", "e" >>
         /\ pc \notin { "start", "killed" } ) => answer.given
    /\ answer.given => prompts[1] = "consent"
    /\ \A i \in 2..Len(prompts) : prompts[i] # "consent"
    /\ ( answer.given /\ ~ answer.eof /\ ~ IsYes(answer.text) )
           => /\ pc = "exited"
              /\ exit_status = 0
              /\ prompts = << "consent" >>
              /\ files_to_scan = << >>
              /\ opened = << >>
              /\ sent = << >>

\* the flag is set to "True", the user answers "y", the process exits with 0
C5_Witness ==
    /\ env_ack = << "T", "r", "u", "e" >>
    /\ answer = Typed(<< "y" >>)
    /\ prompts = << "consent" >>
    /\ pc = "exited"
    /\ exit_status = 0

\* C6: when the loop has ended, all_results holds exactly one result for
\* every discovered file, in order, and the PDF reports as many files as
\* were discovered.
C6_OneResultPerFile ==
    /\ pc = "after_loop" =>
           /\ Len(all_results) = Len(files_to_scan)
           /\ \A k \in 1..Len(all_results) : all_results[k][1] = files_to_scan[k]
    /\ pdf.written => pdf.summary.files = Len(files_to_scan)

PositionIn(seq, x) == CHOOSE i \in 1..Len(seq) : seq[i] = x

\* the issues the console shows for a file, in the order printed
RECURSIVE Printed(_, _)
Printed(lines, file) ==
    IF lines = << >> THEN << >>
    ELSE (IF Head(lines).file = file THEN Head(lines).rows ELSE << >>)
         \o Printed(Tail(lines), file)

C7_Order ==
    /\ \A k \in 1..Len(all_results) : all_results[k][1] \in Range(files_to_scan)
    /\ \A a, b \in 1..Len(all_results) :
           a < b => PositionIn(files_to_scan, all_results[a][1])
                        < PositionIn(files_to_scan, all_results[b][1])
    /\ \A k \in 1..Len(all_results) :
           /\ \E m \in 1..Len(sent) :
                  /\ sent[m].file = all_results[k][1]
                  /\ sent[m].returned = all_results[k][2]
           /\ IsPrefix(Printed(console, all_results[k][1]), all_results[k][2])
    /\ pdf.written =>
           /\ Len(pdf.sections) = Len(all_results)
           /\ \A k \in 1..Len(all_results) :
                  /\ pdf.sections[k].file_path = all_results[k][1]
                  /\ Len(pdf.sections[k].rows) = Len(all_results[k][2])
                  /\ \A j \in 1..Len(all_results[k][2]) :
                         /\ pdf.sections[k].rows[j].idx = j
                         /\ pdf.sections[k].rows[j].title = all_results[k][2][j].tok

C7_AppendOnly ==
    \/ all_results' = all_results
    \/ /\ Len(all_results') = Len(all_results) + 1
       /\ SubSeq(all_results', 1, Len(all_results)) = all_results

\* C7: all_results only grows at its end, its files are distinct and in
\* the order of files_to_scan, and the issues of a file are stored, printed
\* and laid out in the PDF in the order scan_with_ai returned them.
C7_ResultsInOrder == [] C7_Order /\ [][C7_AppendOnly]_vars

\* a PDF of two files whose second table has the two issues the extractor
\* returned, in that order
C7_Witness ==
    /\ pdf.written
    /\ Len(all_results) >= 2
    /\ all_results[1][2] # << >>
    /\ issues.value = << JAtom("md"), JAtom("ns") >>
    /\ all_results[Len(all_results)][2] = issues.value
    /\ pdf.sections[Len(all_results)].rows[1].title = "md"
    /\ pdf.sections[Len(all_results)].rows[2].title = "ns"

\* C8: export_to_pdf is called at most once, only for the format pdf and
\* only after the loop has gone through every discovered file; a run that
\* stops earlier, or finds no file, writes no PDF.
C8_ExportOnceAfterLoop ==
    /\ export_calls <= 1
    /\ export_calls = 1 =>
           /\ output_format = "pdf"
           /\ files_to_scan # << >>
           /\ opened = files_to_scan
           /\ pc \in { "done", "crashed" }
    /\ pdf.written => export_calls = 1
    /\ opened # files_to_scan => ~ pdf.written
    /\ files_to_scan = << >> => ~ pdf.written

\* the PDF is written after the last of the files was attempted
C8_Witness ==
    /\ pc = "done"
    /\ pdf.written
    /\ export_calls = 1
    /\ Len(files_to_scan) >= 2
    /\ opened = files_to_scan

---------------------------------------------------------------------------
(* Specification of the file finder alone *)

InitFind ==
    /\ pc = "find"
    /\ CONFIG \in load_config
    /\ directory \in Roots
    /\ fs \in Trees(directory)
    /\ files_to_scan = << >>
    /\ RunIdle

FindFiles ==
    /\ pc = "find"
    /\ files_to_scan' = find_supported_files(directory)
    /\ pc' = "found"
    /\ UNCHANGED << env_ack, fs, CONFIG, directory, cli_args, answer, prompts,
                    exit_status, output_format, opened, sent, all_results,
                    console, pdf, export_calls, completion, issues >>

NextFind == FindFiles

SpecFind == InitFind /\ [][NextFind]_vars

\* the number of positions of seq that hold x
Occurrences(seq, x) == Cardinality({ i \in 1..Len(seq) : seq[i] = x })

\* a directory name the configuration excludes
ExcludedDirName(d) ==
    \/ d[1] = "."
    \/ \E i \in 1..Len(CONFIG.EXCLUDED_DIRS) : CONFIG.EXCLUDED_DIRS[i] = d

\* the file p is one the discoverer has to report
Eligible(p) ==
    LET name == p[Len(p)]
    IN  /\ \E i \in 1..Len(CONFIG.SUPPORTED_EXTENSIONS) :
               EndsWith(name, CONFIG.SUPPORTED_EXTENSIONS[i])
        /\ \A i \in 1..Len(CONFIG.EXCLUDED_PATTERNS) :
               ~ Contains(name, CONFIG.EXCLUDED_PATTERNS[i])
        /\ \A k \in (Len(directory) + 1)..(Len(p) - 1) : ~ ExcludedDirName(p[k])

\* C1: find_supported_files returns every file below the directory whose
\* name ends with a supported extension, contains no excluded pattern and
\* lies below no excluded directory exactly once, and returns nothing else.
C1_FindExactlyEligible ==
    pc = "found" =>
        /\ \A p \in fs : Occurrences(files_to_scan, p) = IF Eligible(p) THEN 1 ELSE 0
        /\ \A i \in 1..Len(files_to_scan) : files_to_scan[i] \in fs

\* a supported file three levels down is found, while an excluded directory
\* at the first level hides another supported file
C1_Witness ==
    /\ pc = "found"
    /\ \E p \in fs : Len(p) = Len(directory) + MaxDepth + 1 /\ Eligible(p)
                     /\ Occurrences(files_to_scan, p) = 1
    /\ \E p \in fs : /\ Len(p) > Len(directory) + 1
                     /\ ExcludedDirName(p[Len(directory) + 1])
                     /\ FileMatches(p[Len(p)])
                     /\ Occurrences(files_to_scan, p) = 0

---------------------------------------------------------------------------
(* Specification of the issue extractor alone *)

RECURSIVE SeqsUpTo(_, _)
SeqsUpTo(S, n) ==
    IF n = 0 THEN { << >> }
    ELSE LET shorter == SeqsUpTo(S, n - 1)
         IN  shorter \cup { Append(q, x) : q \in shorter, x \in S }

Prose == SeqsUpTo({ WORD, LB, RB }, MaxProse)

OpeningFences == { << >>, << NL, FENCE, JSON, NL >>, << FENCE, JSON, NL >> }
ClosingFences == { << >>, << NL, FENCE >>, << NL, FENCE, NL >> }

ArrayElements == { JAtom("hi"), JArray(<< >>), JArray(<< JAtom("md") >>) }
JsonArrays    == { JArray(elts) : elts \in SeqsUpTo(ArrayElements, MaxItems) }

\* the behaviours of the endpoint the extractor is checked against
IsCompletion(c) ==
    \/ c \in { Raises, NullContent }
    \/ \E pre \in Prose, open \in OpeningFences, close \in ClosingFences, post \in Prose :
          \/ \E arr \in JsonArrays :
                 c = Completion("text", pre, open, TRUE, arr, close, post)
          \/ c = Completion("text", pre, open, FALSE, JArray(<< >>), close, post)

InitScan ==
    /\ pc = "scan"
    /\ IsCompletion(completion)
    /\ issues = NoIssues
    /\ CONFIG = DefaultConfig
    /\ directory = << << "w" >> >>
    /\ fs = {}
    /\ files_to_scan = << >>
    /\ env_ack = << >>
    /\ cli_args = TRUE
    /\ answer = NoAnswer
    /\ prompts = << >>
    /\ exit_status = -1
    /\ output_format = "table"
    /\ opened = << >>
    /\ sent = << >>
    /\ all_results = << >>
    /\ console = << >>
    /\ pdf = NoPdf
    /\ export_calls = 0

ScanWithAi ==
    /\ pc = "scan"
    /\ issues' = scan_with_ai(completion)
    /\ pc' = "scanned"
    /\ UNCHANGED << env_ack, fs, CONFIG, directory, cli_args, answer, prompts,
                    exit_status, output_format, files_to_scan, opened, sent,
                    all_results, console, pdf, export_calls, completion >>

NextScan == ScanWithAi

SpecScan == InitScan /\ [][NextScan]_vars

\* the reply is a well-formed JSON array, possibly fenced, possibly with
\* prose around it
IsWrappedArray(c) == c.kind = "text" /\ c.hasarr

ReturnsTheArray(c) == issues = [ raised |-> FALSE, value |-> c.arr.items ]

\* C2 as stated: whatever the prose around a well-formed JSON array,
\* scan_with_ai returns exactly that array.
C2_AnyProse ==
    (pc = "scanned" /\ IsWrappedArray(completion)) => ReturnsTheArray(completion)

\* C2, amended: when the prose before the array holds no "[" and the prose
\* after it holds no "]", scan_with_ai returns exactly the parsed array,
\* fenced or not.
C2_BracketFreeProse ==
    ( /\ pc = "scanned"
      /\ IsWrappedArray(completion)
      /\ LB \notin Range(completion.pre)
      /\ RB \notin Range(completion.post) )
    => ReturnsTheArray(completion)

\* a fenced array with a nested array in it, prose on both sides
C2_Witness ==
    /\ pc = "scanned"
    /\ IsWrappedArray(completion)
    /\ WORD \in Range(completion.pre)
    /\ LB \notin Range(completion.pre)
    /\ RB \notin Range(completion.post)
    /\ LB \in Range(completion.post)
    /\ completion.open = << NL, FENCE, JSON, NL >>
    /\ completion.close # << >>
    /\ \E i \in 1..Len(completion.arr.items) :
           /\ completion.arr.items[i].kind = "arr"
           /\ completion.arr.items[i].items # << >>
    /\ Len(completion.arr.items) = MaxItems
    /\ ReturnsTheArray(completion)

HasSpan(text) ==
    \E i, j \in 1..Len(text) : i < j /\ text[i] = LB /\ text[j] = RB

Span(text) ==
    SubSeq(text, Min({ i \in 1..Len(text) : text[i] = LB }),
                 Max({ j \in 1..Len(text) : text[j] = RB }))

\* the endpoint call raises, or text has no "[" ... "]" span, or the text
\* from its first "[" to its last "]" is not valid JSON
SoftFailure(c, text) ==
    \/ c.kind = "raise"
    \/ /\ c.kind = "text"
       /\ \/ ~ HasSpan(text)
          \/ ~ json_loads(Span(text)).ok

\* C3 as stated: scan_with_ai never raises, and it returns the empty list
\* when the endpoint call raises, when the reply has no "[" ... "]" span,
\* and when the text from the first "[" to the last "]" of the reply is not
\* valid JSON.
C3_SpanOfReply ==
    pc = "scanned" =>
        /\ ~ issues.raised
        /\ SoftFailure(completion, Content(completion)) => issues.value = << >>

\* the text the extractor searches: the reply once the code-fence markers
\* at the starts and the ends of its lines are removed
SearchedText(c) == sub_fences(strip(Content(c)))

\* C3, amended: scan_with_ai never raises, and it returns the empty list
\* when the endpoint call raises, when the reply without its code-fence
\* markers has no "[" ... "]" span, and when the text from the first "[" to
\* the last "]" of the reply without its code-fence markers is not valid
\* JSON.
C3_SoftFailuresGiveEmptyList ==
    pc = "scanned" =>
        /\ ~ issues.raised
        /\ SoftFailure(completion, SearchedText(completion)) => issues.value = << >>

\* a reply whose span is not valid JSON although it holds a JSON array
C3_Witness ==
    /\ pc = "scanned"
    /\ completion.kind = "text"
    /\ completion.hasarr
    /\ completion.arr.items # << >>
    /\ HasSpan(SearchedText(completion))
    /\ ~ json_loads(Span(SearchedText(completion))).ok
    /\ issues = [ raised |-> FALSE, value |-> << >> ]

---------------------------------------------------------------------------
(* Specification of the PDF export alone *)

PdfPaths == << << << "w" >>, << "f", "1" >> >>,
               << << "w" >>, << "f", "2" >> >>,
               << << "w" >>, << "f", "3" >> >> >>

IssueLists == SeqsUpTo({ JAtom(tok) : tok \in Atoms }, MaxIssues)

InitPdf ==
    /\ pc = "export"
    /\ \E n \in 0..MaxResults :
           \E lists \in [ 1..n -> IssueLists ] :
               all_results = [ k \in 1..n |-> << PdfPaths[k], lists[k] >> ]
    /\ pdf = NoPdf
    /\ export_calls = 0
    /\ output_format = "pdf"
    /\ CONFIG = DefaultConfig
    /\ directory = << << "w" >> >>
    /\ fs = {}
    /\ files_to_scan = << >>
    /\ env_ack = << >>
    /\ cli_args = TRUE
    /\ answer = NoAnswer
    /\ prompts = << >>
    /\ exit_status = -1
    /\ opened = << >>
    /\ sent = << >>
    /\ console = << >>
    /\ completion = NoCompletion
    /\ issues = NoIssues

ExportToPdf ==
    /\ pc = "export"
    /\ \E build_ok \in BOOLEAN :
           LET r == export_to_pdf(all_results, build_ok)
           IN  /\ pdf' = r.doc
               /\ pc' = IF r.raised THEN "export_raised" ELSE "exported"
    /\ export_calls' = export_calls + 1
    /\ UNCHANGED << env_ack, fs, CONFIG, directory, cli_args, answer, prompts,
                    exit_status, output_format, files_to_scan, opened, sent,
                    all_results, console, completion, issues >>

NextPdf == ExportToPdf

SpecPdf == InitPdf /\ [][NextPdf]_vars

IssueSlots(results) ==
    UNION { { << k, j >> : j \in 1..Len(results[k][2]) } : k \in 1..Len(results) }

HasSeverity(issue) == issue.tok \in { "hi", "md", "lo", "cr" }
SeverityOf(issue) ==
    IF issue.tok = "hi" THEN "High"
    ELSE IF issue.tok = "md" THEN "Medium"
    ELSE IF issue.tok = "lo" THEN "Low"
    ELSE "Critical"

SeverityCellAsClaimed(issue, cell) ==
    LET is_high   == HasSeverity(issue) /\ SeverityOf(issue) = "High"
        is_medium == HasSeverity(issue) /\ SeverityOf(issue) = "Medium"
    IN  /\ cell = Cell("red", TRUE, "High") <=> is_high
        /\ cell = Cell("orange", TRUE, "Medium") <=> is_medium
        /\ cell = Cell("green", FALSE, "Low") <=> (~ is_high /\ ~ is_medium)
        /\ (HasSeverity(issue) /\ cell.label = SeverityOf(issue))
               <=> (HasSeverity(issue) /\ SeverityOf(issue) \in { "High", "Medium", "Low" })
        /\ ~ HasSeverity(issue) => cell.label = "Low"

\* C10: the severity cell of every row is red bold "High" exactly for the
\* severity High, orange bold "Medium" exactly for Medium and green "Low"
\* for every other value and for a missing severity, so the label equals
\* the issue's severity only for High, Medium and Low.
C10_SeverityCell ==
    pdf.written =>
        \A k \in 1..Len(pdf.sections) :
            \A j \in 1..Len(pdf.sections[k].rows) :
                SeverityCellAsClaimed(all_results[k][2][j],
                                      pdf.sections[k].rows[j].severity)

\* a Critical issue and an issue without severity are both shown as "Low"
C10_Witness ==
    /\ pdf.written
    /\ Len(pdf.sections) = 2
    /\ all_results[1][2] = << JAtom("cr") >>
    /\ all_results[2][2] = << JAtom("ns") >>
    /\ pdf.sections[1].rows[1].severity = Cell("green", FALSE, "Low")
    /\ pdf.sections[2].rows[1].severity = Cell("green", FALSE, "Low")

=============================================================================
